---- MODULE Spec2Model ----
(***************************************************************************)
(* Order lifecycle and inventory consistency of the e-commerce backend.    *)
(*                                                                         *)
(* The database holds two collections: products (only the stock counter    *)
(* matters here) and orders.  Every request handled by OrderService is a   *)
(* coroutine; each `await` on the database is one atomic storage           *)
(* operation and a point where another request may run.  One action of     *)
(* this module is one such storage operation together with the Python      *)
(* code that runs up to the next await.                                    *)
(***************************************************************************)
EXTENDS Integers, Sequences, FiniteSets, TLC

(***************************************************************************)
(* Bounds of the model.                                                    *)
(***************************************************************************)
MaxQty == 1          \* largest quantity of one line item
MaxInitStock == 1    \* largest stock of a product in the initial state
MaxPrice == 2        \* largest unit price of a line item
MaxTime == 2         \* latest reading of the clock

\* Every client sends one request; the requests of the two clients are
\* served concurrently.  What was served before is the initial database.
Clients == {"c1", "c2"}
Users == {"alice", "bob"}
Customers == {"alice"}           \* the users who place orders
OrderIds == {1, 2}               \* the order ids a request may name
Products == {"P", "Q"}           \* ids present in the products collection
MissingProduct == "X"            \* a product id that is in no document

\* Most orders placed when requests are served in turn: an id for each.
MaxDocs == Cardinality(OrderIds)

(***************************************************************************)
(* domain/orders/value_objects.py                                          *)
(***************************************************************************)
PROCESSING == "Processing"
CONFIRMED == "Confirmed"
SHIPPED == "Shipped"
OUT_FOR_DELIVERY == "Out for Delivery"
DELIVERED == "Delivered"
CANCELLED == "Cancelled"
REFUNDED == "Refunded"

OrderStatus ==
    {PROCESSING, CONFIRMED, SHIPPED, OUT_FOR_DELIVERY, DELIVERED, CANCELLED,
     REFUNDED}

\* valid_transitions with a refunded order taken up again.
valid_transitions_reopened ==
    [s \in OrderStatus |->
        CASE s = PROCESSING -> <<CONFIRMED, CANCELLED>>
          [] s = CONFIRMED -> <<SHIPPED, CANCELLED>>
          [] s = SHIPPED -> <<OUT_FOR_DELIVERY, CANCELLED>>
          [] s = OUT_FOR_DELIVERY -> <<DELIVERED>>
          [] s = DELIVERED -> <<REFUNDED>>
          [] s = CANCELLED -> <<>>
          [] s = REFUNDED -> <<PROCESSING>>]

\* valid_transitions with Cancelled also allowed after Out for Delivery.
valid_transitions_late_cancel ==
    [s \in OrderStatus |->
        CASE s = PROCESSING -> <<CONFIRMED, CANCELLED>>
          [] s = CONFIRMED -> <<SHIPPED, CANCELLED>>
          [] s = SHIPPED -> <<OUT_FOR_DELIVERY, CANCELLED>>
          [] s = OUT_FOR_DELIVERY -> <<DELIVERED, CANCELLED>>
          [] s = DELIVERED -> <<REFUNDED>>
          [] s = CANCELLED -> <<>>
          [] s = REFUNDED -> <<>>]

valid_transitions ==
    [s \in OrderStatus |->
        CASE s = PROCESSING -> <<CONFIRMED, CANCELLED>>
          [] s = CONFIRMED -> <<SHIPPED, CANCELLED>>
          [] s = SHIPPED -> <<OUT_FOR_DELIVERY, CANCELLED>>
          [] s = OUT_FOR_DELIVERY -> <<DELIVERED>>
          [] s = DELIVERED -> <<REFUNDED>>
          [] s = CANCELLED -> <<>>
          [] s = REFUNDED -> <<>>]

\* valid_transitions.get(current, []): a status outside the table has no
\* successor.
transitions_get(current) ==
    IF current \in DOMAIN valid_transitions
    THEN valid_transitions[current]
    ELSE <<>>

can_transition_to(current, new) ==
    \E k \in DOMAIN transitions_get(current) : transitions_get(current)[k] = new

is_final(s) == s \in {DELIVERED, CANCELLED, REFUNDED}

\* is_cancellable written as "not final".
is_cancellable_not_final(s) == ~is_final(s)

is_cancellable(s) == s \in {PROCESSING, CONFIRMED, SHIPPED}

(***************************************************************************)
(* domain/orders/entities.py                                               *)
(***************************************************************************)
\* Order.can_cancel
can_cancel(order) == is_cancellable(order.order_status)

\* Order.can_transition_to
order_can_transition_to(order, new_status) ==
    can_transition_to(order.order_status, new_status)

\* OrderItem.subtotal; price is an int field, a whole number of units.
subtotal(item) == item.price * item.quantity

RECURSIVE SumSubtotals(_)
\* sum(item.subtotal for item in order_items)
SumSubtotals(items) ==
    IF items = <<>> THEN 0
    ELSE subtotal(Head(items)) + SumSubtotals(Tail(items))

\* calculate_totals that trusts the items_price it was given.
calculate_totals_given_items_price(order) ==
    [order EXCEPT !.total_price =
        order.items_price + order.tax_price + order.shipping_price]

\* Order.calculate_totals, the validator that runs after every construction
\* of an Order.
calculate_totals(order) ==
    LET items_price == IF order.order_items # <<>>
                       THEN SumSubtotals(order.order_items)
                       ELSE order.items_price
    IN  [order EXCEPT !.items_price = items_price,
                      !.total_price =
                          items_price + order.tax_price + order.shipping_price]

(***************************************************************************)
(* Request inputs.                                                         *)
(***************************************************************************)
\* OrderItemSchema: product id, quantity >= 1 and unit price.  The quantity
\* varies on product P.
OrderItem ==
    [product : {"P"}, quantity : 1..MaxQty, price : {1}]
        \cup [product : {"Q", MissingProduct}, quantity : {1}, price : {1}]

\* OrderCreateRequest.order_items, min_length 1: orders of one line and of
\* two lines, the same product twice included.
ItemLists == {<<a>> : a \in OrderItem} \cup {<<a, b>> : a, b \in OrderItem}

RECURSIVE QtyOf(_, _)
\* Total quantity of product p over the line items.
QtyOf(items, p) ==
    IF items = <<>> THEN 0
    ELSE (IF Head(items).product = p THEN Head(items).quantity ELSE 0)
         + QtyOf(Tail(items), p)

NoOrder ==
    [user |-> "-", order_items |-> <<>>, items_price |-> 0, tax_price |-> 0,
     shipping_price |-> 0, total_price |-> 0, payment_status |-> "-",
     paid_at |-> FALSE, delivered_at |-> FALSE, order_status |-> "-",
     created_at |-> 0]

\* An email address: its mailbox and whether it is written in upper case.
Emails == [mailbox : {"ann", "ben"}, upper : BOOLEAN]

NoEmail == [mailbox |-> "-", upper |-> FALSE]

\* str.lower
lower(email) == [email EXCEPT !.upper = FALSE]

\* A date that was not given (None); the clock reads 1 or more.
None == 0

\* A stock that was not given (None) in ProductUpdateRequest.
NoStock == -1

\* What get_sales_stats returns when the pipeline yields no group.
ZeroStats ==
    [total_orders |-> 0, total_sales |-> 0, delivered_orders |-> 0,
     processing_orders |-> 0, cancelled_orders |-> 0]

\* The review fields of a product that has no review: reviews,
\* num_of_reviews and ratings as Product gives them by default.
Unreviewed == [reviews |-> <<>>, num_of_reviews |-> 0, ratings |-> 0]

VARIABLES
    stock,          \* products collection: product id -> stock
    orders,         \* orders collection: order id (index) -> document
    req,            \* per client, the request it is serving
    initial_stock,  \* stock of each product before any order was placed
    users,          \* users collection: user id (index) -> document
    reviews         \* products collection: product id -> reviews,
                    \* num_of_reviews and ratings (in tenths)

vars == <<stock, orders, req, initial_stock, users, reviews>>

Idle ==
    [kind |-> "none", pc |-> "done", user |-> "-", order_items |-> <<>>,
     oid |-> 0, status |-> "-", i |-> 0, seen |-> NoOrder,
     result |-> "none", ret |-> "-", solo |-> TRUE,
     stock0 |-> [p \in Products |-> 0], norders0 |-> 0, orders0 |-> <<>>,
     items_price |-> 0, tax_price |-> 0, shipping_price |-> 0,
     payment_status |-> "-", now |-> 0,
     start_date |-> None, end_date |-> None, stats |-> ZeroStats,
     product_id |-> "-", quantity_change |-> 0,
     email |-> NoEmail, user_id |-> 0, token |-> 0, users0 |-> <<>>,
     caller |-> 0, new_stock |-> NoStock, page |-> 0, limit |-> 0,
     total |-> 0, listed |-> <<>>, rejected |-> {},
     rating |-> 0, comment |-> "-", average |-> 0,
     reviews0 |-> [p \in Products |-> Unreviewed], given_stock |-> NoStock]

\* Client c moves to r.  solo is kept only by a request during which, and
\* since the end of which, no other request has taken a step.
Step(c, r) ==
    req' = [q \in Clients |->
              IF q = c THEN r
              ELSE IF req[q].kind # "none"
                   THEN [req[q] EXCEPT !.solo = FALSE]
                   ELSE req[q]]

\* The record of a request that client c starts now, with what the database
\* holds at this moment.  A request starts with its first storage operation.
\* The amounts of an order request default to no charges and a payment that
\* succeeded; now is the reading of the clock.
Fresh(c, kind, user, items, oid, status, pc) ==
    [kind |-> kind, pc |-> pc, user |-> user, order_items |-> items,
     oid |-> oid, status |-> status, i |-> 1, seen |-> NoOrder,
     result |-> "none", ret |-> "-",
     solo |-> \A q \in Clients \ {c} : req[q].pc = "done",
     stock0 |-> stock, norders0 |-> Len(orders), orders0 |-> orders,
     items_price |-> 0, tax_price |-> 0, shipping_price |-> 0,
     payment_status |-> "succeeded", now |-> 0,
     start_date |-> None, end_date |-> None, stats |-> ZeroStats,
     product_id |-> "-", quantity_change |-> 0,
     email |-> NoEmail, user_id |-> 0, token |-> 0, users0 |-> users,
     caller |-> 0, new_stock |-> NoStock, page |-> 0, limit |-> 0,
     total |-> 0, listed |-> <<>>, rejected |-> {},
     rating |-> 0, comment |-> "-", average |-> 0, reviews0 |-> reviews,
     given_stock |-> NoStock]

\* The request ends by raising the exception err.
Raise(c, r, err) == Step(c, [r EXCEPT !.pc = "done", !.result = err])

(***************************************************************************)
(* MongoProductRepository.update_stock: one update_one whose filter        *)
(* guards the $inc.                                                        *)
(***************************************************************************)
\* stock_filter without the guard: a bare $inc.
stock_filter_unguarded(s, quantity_change) == TRUE

stock_filter(s, quantity_change) ==
    s >= (IF quantity_change < 0 THEN -quantity_change ELSE 0)

\* modified_count > 0: a document passed the filter and the $inc changed
\* it, which an increment of 0 does not.
update_stock_ok(product_id, quantity_change) ==
    /\ product_id \in DOMAIN stock
    /\ stock_filter(stock[product_id], quantity_change)
    /\ quantity_change # 0

update_stock(product_id, quantity_change) ==
    stock' = IF update_stock_ok(product_id, quantity_change)
             THEN [stock EXCEPT ![product_id] = @ + quantity_change]
             ELSE stock

(***************************************************************************)
(* MongoOrderRepository.update_status / mark_as_delivered: one update_one  *)
(* filtered by _id only.                                                   *)
(***************************************************************************)
\* update_status that sets the status only, never delivered_at.
update_status_status_only(order_id, status) ==
    orders' = IF order_id \in DOMAIN orders
              THEN [orders EXCEPT ![order_id] =
                      [@ EXCEPT !.order_status = status]]
              ELSE orders

update_status(order_id, status) ==
    orders' = IF order_id \in DOMAIN orders
              THEN [orders EXCEPT ![order_id] =
                      [@ EXCEPT !.order_status = status,
                                !.delivered_at =
                                    IF status = DELIVERED THEN TRUE ELSE @]]
              ELSE orders

\* mark_as_delivered that stamps delivered_at and leaves the status.
mark_as_delivered_stamp_only(order_id) ==
    orders' = IF order_id \in DOMAIN orders
              THEN [orders EXCEPT ![order_id] =
                      [@ EXCEPT !.delivered_at = TRUE]]
              ELSE orders

\* mark_as_delivered that sets the status only, not delivered_at.
mark_as_delivered_status_only(order_id) ==
    orders' = IF order_id \in DOMAIN orders
              THEN [orders EXCEPT ![order_id] =
                      [@ EXCEPT !.order_status = DELIVERED]]
              ELSE orders

mark_as_delivered(order_id) ==
    orders' = IF order_id \in DOMAIN orders
              THEN [orders EXCEPT ![order_id] =
                      [@ EXCEPT !.order_status = DELIVERED,
                                !.delivered_at = TRUE]]
              ELSE orders

(***************************************************************************)
(* OrderService.create_order                                               *)
(***************************************************************************)
\* The stock test of the validation loop.
\* insufficient_stock off by one.
insufficient_stock_off_by_one(product_stock, quantity) ==
    product_stock + 1 < quantity

insufficient_stock(product_stock, quantity) == product_stock < quantity

\* The exception raised when get_by_id finds no product.
product_not_found_error == "ValidationError"

\* One round of the validation loop: get_by_id, then the two tests.
ValidateItem(c, r) ==
    LET item == r.order_items[r.i]
        last == r.i = Len(r.order_items)
    IN  /\ IF item.product \notin DOMAIN stock
           THEN Raise(c, r, product_not_found_error)
           ELSE IF insufficient_stock(stock[item.product], item.quantity)
                THEN Raise(c, r, "ValidationError")
                ELSE Step(c, [r EXCEPT !.i = IF last THEN 1 ELSE @ + 1,
                                       !.pc = IF last THEN "insert" ELSE @])
        /\ UNCHANGED <<stock, orders, initial_stock, users, reviews>>

\* A create_order request arrives and validates its first item.
StartCreate(c) ==
    /\ req[c].kind = "none"
    /\ \E user \in Customers, items \in ItemLists :
          ValidateItem(c, Fresh(c, "create", user, items, 0, "-", "validate"))

\* The validation of the next item.
CreateValidate(c) ==
    /\ req[c].kind = "create" /\ req[c].pc = "validate"
    /\ ValidateItem(c, req[c])

\* new_order that sets paid_at whatever the payment status.
new_order_always_paid(r) ==
    calculate_totals(
        [user |-> r.user, order_items |-> r.order_items,
         items_price |-> r.items_price, tax_price |-> r.tax_price,
         shipping_price |-> r.shipping_price, total_price |-> 0,
         payment_status |-> r.payment_status,
         paid_at |-> TRUE,
         delivered_at |-> FALSE, order_status |-> PROCESSING,
         created_at |-> r.now])

\* order = Order(...): the fields given by create_order, then the
\* validator.
new_order(r) ==
    calculate_totals(
        [user |-> r.user, order_items |-> r.order_items,
         items_price |-> r.items_price, tax_price |-> r.tax_price,
         shipping_price |-> r.shipping_price, total_price |-> 0,
         payment_status |-> r.payment_status,
         paid_at |-> (r.payment_status = "succeeded"),
         delivered_at |-> FALSE, order_status |-> PROCESSING,
         created_at |-> r.now])

\* BaseMongoRepository._to_entity: model_validate builds the Order again.
to_entity(document) == calculate_totals(document)

\* Order(...) and the insert_one of BaseMongoRepository.create.
CreateInsert(c) ==
    LET r == req[c]
    IN  /\ r.kind = "create" /\ r.pc = "insert"
        /\ orders' = Append(orders, new_order(r))
        /\ Step(c, [r EXCEPT !.oid = Len(orders) + 1, !.pc = "fetch"])
        /\ UNCHANGED <<stock, initial_stock, users, reviews>>

\* The find_one of BaseMongoRepository.create: created_order.
CreateFetch(c) ==
    LET r == req[c]
    IN  /\ r.kind = "create" /\ r.pc = "fetch"
        /\ Step(c, [r EXCEPT !.seen = to_entity(orders[r.oid]),
                             !.pc = "decrement"])
        /\ UNCHANGED <<stock, orders, initial_stock, users, reviews>>

\* The stock loop with the result of update_stock looked at: a rejected
\* decrement takes the order back and ends the request with an error.
CreateDecrement_checked(c) ==
    LET r == req[c]
        item == r.order_items[r.i]
        last == r.i = Len(r.order_items)
    IN  /\ r.kind = "create" /\ r.pc = "decrement"
        /\ update_stock(item.product, -item.quantity)
        /\ IF update_stock_ok(item.product, -item.quantity)
           THEN /\ Step(c, [r EXCEPT !.i = IF last THEN @ ELSE @ + 1,
                                     !.pc = IF last THEN "done" ELSE @,
                                     !.result = IF last THEN "ok" ELSE @,
                                     !.ret = IF last THEN r.seen.order_status
                                             ELSE @])
                /\ UNCHANGED orders
           ELSE /\ Raise(c, [r EXCEPT !.rejected = @ \cup {r.i}],
                         "ValidationError")
                /\ orders' = [orders EXCEPT ![r.oid].order_status = CANCELLED]
        /\ UNCHANGED <<initial_stock, users, reviews>>

\* for item in order_items: update_stock(product, -quantity); the result is
\* not looked at (rejected keeps the items whose decrement was rejected,
\* for the properties only).  After the last item the created order is
\* returned.
CreateDecrement(c) ==
    LET r == req[c]
        item == r.order_items[r.i]
        last == r.i = Len(r.order_items)
    IN  /\ r.kind = "create" /\ r.pc = "decrement"
        /\ update_stock(item.product, -item.quantity)
        /\ Step(c, [r EXCEPT !.rejected =
                                IF update_stock_ok(item.product, -item.quantity)
                                THEN @ ELSE @ \cup {r.i},
                             !.i = IF last THEN @ ELSE @ + 1,
                             !.pc = IF last THEN "done" ELSE @,
                             !.result = IF last THEN "ok" ELSE @,
                             !.ret = IF last THEN r.seen.order_status ELSE @])
        /\ UNCHANGED <<orders, initial_stock, users, reviews>>

(***************************************************************************)
(* OrderService.get_order                                                  *)
(***************************************************************************)
\* The last statement of cancel_order, update_order_status and
\* mark_as_delivered: return await self.get_order(order_id).
Reload(c) ==
    LET r == req[c]
    IN  /\ r.pc = "reload"
        /\ IF r.oid \in DOMAIN orders
           THEN Step(c, [r EXCEPT !.pc = "done", !.result = "ok",
                                  !.ret = orders[r.oid].order_status])
           ELSE Raise(c, r, "NotFoundError")
        /\ UNCHANGED <<stock, orders, initial_stock, users, reviews>>

(***************************************************************************)
(* OrderService.cancel_order                                               *)
(***************************************************************************)
\* The quantity given back to the stock for one order item.
\* restore_quantity with the sign of the decrement.
restore_quantity_negated(item) == -item.quantity

restore_quantity(item) == item.quantity

\* StartCancel with the can_cancel test made before the ownership test.
StartCancel_cancellable_first(c) ==
    /\ req[c].kind = "none"
    /\ \E oid \in OrderIds, user \in Users :
        LET r == Fresh(c, "cancel", user, <<>>, oid, "-", "load")
        IN  IF oid \notin DOMAIN orders
            THEN Raise(c, r, "NotFoundError")
            ELSE IF ~can_cancel(orders[oid])
                 THEN Raise(c, [r EXCEPT !.seen = orders[oid]],
                            "ValidationError")
                 ELSE IF orders[oid].user # user
                      THEN Raise(c, [r EXCEPT !.seen = orders[oid]],
                                 "ForbiddenError")
                      ELSE Step(c, [r EXCEPT !.seen = orders[oid],
                                             !.pc = "restore"])
    /\ UNCHANGED <<stock, orders, initial_stock, users, reviews>>

\* A cancel_order request arrives: get_user_order, then the can_cancel test.
StartCancel(c) ==
    /\ req[c].kind = "none"
    /\ \E oid \in OrderIds, user \in Users :
        LET r == Fresh(c, "cancel", user, <<>>, oid, "-", "load")
        IN  IF oid \notin DOMAIN orders
            THEN Raise(c, r, "NotFoundError")
            ELSE IF orders[oid].user # user
                 THEN Raise(c, [r EXCEPT !.seen = orders[oid]],
                            "ForbiddenError")
                 ELSE IF ~can_cancel(orders[oid])
                      THEN Raise(c, [r EXCEPT !.seen = orders[oid]],
                                 "ValidationError")
                      ELSE Step(c, [r EXCEPT !.seen = orders[oid],
                                             !.pc = "restore"])
    /\ UNCHANGED <<stock, orders, initial_stock, users, reviews>>

\* for item in order.order_items: update_stock(product, quantity).
CancelRestore(c) ==
    LET r == req[c]
        item == r.seen.order_items[r.i]
        last == r.i = Len(r.seen.order_items)
    IN  /\ r.kind = "cancel" /\ r.pc = "restore"
        /\ update_stock(item.product, restore_quantity(item))
        /\ Step(c, [r EXCEPT !.i = IF last THEN @ ELSE @ + 1,
                             !.pc = IF last THEN "write" ELSE @])
        /\ UNCHANGED <<orders, initial_stock, users, reviews>>

\* update_status(order_id, CANCELLED)
CancelWrite(c) ==
    LET r == req[c]
    IN  /\ r.kind = "cancel" /\ r.pc = "write"
        /\ update_status(r.oid, CANCELLED)
        /\ Step(c, [r EXCEPT !.pc = "reload"])
        /\ UNCHANGED <<stock, initial_stock, users, reviews>>

(***************************************************************************)
(* OrderService.update_order_status and OrderService.mark_as_delivered     *)
(***************************************************************************)
\* get_order, then the can_transition_to test.
LoadForTransition(c, r) ==
    /\ IF r.oid \notin DOMAIN orders
       THEN Raise(c, r, "NotFoundError")
       ELSE IF ~order_can_transition_to(orders[r.oid], r.status)
            THEN Raise(c, [r EXCEPT !.seen = orders[r.oid]],
                       "ValidationError")
            ELSE Step(c, [r EXCEPT !.seen = orders[r.oid], !.pc = "write"])
    /\ UNCHANGED <<stock, orders, initial_stock, users, reviews>>

\* An update_order_status request arrives.
StartUpdate(c) ==
    /\ req[c].kind = "none"
    /\ \E oid \in OrderIds, status \in OrderStatus :
          LoadForTransition(c, Fresh(c, "update", "-", <<>>, oid, status,
                                     "load"))

\* UpdateWrite that gives the stock of the first item back when the order
\* is cancelled.
UpdateWrite_restoring(c) ==
    LET r == req[c]
    IN  /\ r.kind = "update" /\ r.pc = "write"
        /\ update_status(r.oid, r.status)
        /\ IF r.status = CANCELLED
           THEN update_stock(r.seen.order_items[1].product,
                             r.seen.order_items[1].quantity)
           ELSE UNCHANGED stock
        /\ Step(c, [r EXCEPT !.pc = "reload"])
        /\ UNCHANGED <<initial_stock, users, reviews>>

\* self._order_repo.update_status(order_id, status)
UpdateWrite(c) ==
    LET r == req[c]
    IN  /\ r.kind = "update" /\ r.pc = "write"
        /\ update_status(r.oid, r.status)
        /\ Step(c, [r EXCEPT !.pc = "reload"])
        /\ UNCHANGED <<stock, initial_stock, users, reviews>>

\* A mark_as_delivered request arrives.
StartDeliver(c) ==
    /\ req[c].kind = "none"
    /\ \E oid \in OrderIds :
          LoadForTransition(c, Fresh(c, "deliver", "-", <<>>, oid, DELIVERED,
                                     "load"))

\* self._order_repo.mark_as_delivered(order_id)
DeliverWrite(c) ==
    LET r == req[c]
    IN  /\ r.kind = "deliver" /\ r.pc = "write"
        /\ mark_as_delivered(r.oid)
        /\ Step(c, [r EXCEPT !.pc = "reload"])
        /\ UNCHANGED <<stock, initial_stock, users, reviews>>

(***************************************************************************)
(* The initial database: products with some stock and at most one order,   *)
(* placed earlier and brought to any status, its quantities taken from the *)
(* stock unless it was cancelled.                                          *)
(***************************************************************************)
EarlierOrders ==
    [user : Customers,
     order_items : {<<[product |-> "P", quantity |-> 1, price |-> 1],
                      [product |-> "Q", quantity |-> 1, price |-> 1]>>},
     items_price : {2}, tax_price : {0}, shipping_price : {0},
     total_price : {2}, payment_status : {"succeeded"}, paid_at : {TRUE},
     order_status : OrderStatus,
     delivered_at : BOOLEAN,
     created_at : {0}]

RECURSIVE Held(_, _)
\* Total quantity of product p over the orders that are not cancelled.
Held(os, p) ==
    IF os = <<>> THEN 0
    ELSE (IF Head(os).order_status # CANCELLED
          THEN QtyOf(Head(os).order_items, p)
          ELSE 0)
         + Held(Tail(os), p)

Init ==
    /\ stock \in [Products -> 0..MaxInitStock]
    /\ orders \in {<<>>} \cup
          {<<o>> : o \in {e \in EarlierOrders :
                e.delivered_at = (e.order_status \in {DELIVERED, REFUNDED})}}
    /\ req = [c \in Clients |-> Idle]
    /\ initial_stock = [p \in Products |-> stock[p] + Held(orders, p)]
    /\ users = <<>>
    /\ reviews = [p \in Products |-> Unreviewed]

Next ==
    \E c \in Clients :
        \/ StartCreate(c)
        \/ CreateValidate(c)
        \/ CreateInsert(c)
        \/ CreateFetch(c)
        \/ CreateDecrement(c)
        \/ StartCancel(c)
        \/ CancelRestore(c)
        \/ CancelWrite(c)
        \/ StartUpdate(c)
        \/ UpdateWrite(c)
        \/ StartDeliver(c)
        \/ DeliverWrite(c)
        \/ Reload(c)

Spec == Init /\ [][Next]_vars

TypeOK ==
    /\ \A p \in Products : stock[p] \in Int
    /\ Len(orders) <= 1 + Cardinality(Clients)

(***************************************************************************)
(* MongoOrderRepository.get_sales_stats: one aggregate of a $match on      *)
(* created_at and a $group over the documents that pass it.  The average   *)
(* of the group is left out.                                               *)
(***************************************************************************)
\* match_stage with $lt in place of $lte.
match_stage_end_excluded(document, start_date, end_date) ==
    /\ start_date # None => document.created_at >= start_date
    /\ end_date # None => document.created_at < end_date

match_stage(document, start_date, end_date) ==
    /\ start_date # None => document.created_at >= start_date
    /\ end_date # None => document.created_at <= end_date

\* The accumulators of $group after one more document.
group_add(acc, document) ==
    [total_orders |-> acc.total_orders + 1,
     total_sales |-> acc.total_sales + document.total_price,
     delivered_orders |-> acc.delivered_orders
         + (IF document.order_status = DELIVERED THEN 1 ELSE 0),
     processing_orders |-> acc.processing_orders
         + (IF document.order_status = PROCESSING THEN 1 ELSE 0),
     cancelled_orders |-> acc.cancelled_orders
         + (IF document.order_status = CANCELLED THEN 1 ELSE 0)]

RECURSIVE group(_, _)
\* $group with _id None over the documents docs, from the accumulators acc.
group(acc, docs) ==
    IF docs = <<>> THEN acc ELSE group(group_add(acc, Head(docs)), Tail(docs))

get_sales_stats(start_date, end_date) ==
    LET Passes(document) == match_stage(document, start_date, end_date)
        results == SelectSeq(orders, Passes)
    IN  IF results # <<>> THEN group(ZeroStats, results) ELSE ZeroStats

\* OrderService.get_sales_stats: the aggregate is one storage operation.
SalesStats(c, r) ==
    /\ Step(c, [r EXCEPT !.pc = "done", !.result = "ok",
                         !.stats = get_sales_stats(r.start_date, r.end_date)])
    /\ UNCHANGED <<stock, orders, initial_stock, users, reviews>>

\* A get_sales_stats request arrives.
GetSalesStats(c) ==
    /\ req[c].kind = "none"
    /\ \E start_date, end_date \in {None} \cup 1..MaxTime :
          SalesStats(c, [Fresh(c, "stats", "-", <<>>, 0, "-", "done")
                           EXCEPT !.start_date = start_date,
                                  !.end_date = end_date])

(***************************************************************************)
(* Requests served one after the other.  One client sends any number of    *)
(* requests, each after the response to the one before; the orders carry   *)
(* prices, charges, a payment status and the time of their creation.       *)
(***************************************************************************)
PricedItemLists ==
    {<<[product |-> "P", quantity |-> 1, price |-> a]>> : a \in 1..MaxPrice}
        \cup {<<[product |-> "P", quantity |-> 1, price |-> a],
                 [product |-> "Q", quantity |-> 1, price |-> 1]>> :
                    a \in 1..MaxPrice}

\* tax_price and shipping_price of OrderCreateRequest.
Charges == {<<0, 0>>, <<1, 2>>}

\* items_price of OrderCreateRequest, any amount >= 0.
SuppliedItemsPrices == {0, 9}

\* payment_info.status of OrderCreateRequest.
PaymentStatuses == {"succeeded", "pending"}

\* datetime.utcnow() never reads less than the created_at of a stored order.
ClockReadings ==
    {t \in 1..MaxTime : \A o \in DOMAIN orders : orders[o].created_at <= t}

\* A create_order request with its amounts arrives and validates its first
\* item.
StartCreateOrder(c) ==
    /\ req[c].kind = "none"
    /\ Len(orders) < MaxDocs
    /\ \E user \in Customers, items \in PricedItemLists,
          items_price \in SuppliedItemsPrices, charges \in Charges,
          payment_status \in PaymentStatuses :
          ValidateItem(c, [Fresh(c, "create", user, items, 0, "-", "validate")
                             EXCEPT !.items_price = items_price,
                                    !.tax_price = charges[1],
                                    !.shipping_price = charges[2],
                                    !.payment_status = payment_status,
                                    !.now = 1])

\* A create_order request arrives at some reading of the clock and
\* validates its first item.
StartCreateOrderAt(c) ==
    /\ req[c].kind = "none"
    /\ Len(orders) < MaxDocs
    /\ \E user \in Customers, charges \in Charges, now \in ClockReadings,
          items \in {l \in PricedItemLists : l[1].price = 1} :
          ValidateItem(c, [Fresh(c, "create", user, items, 0, "-", "validate")
                             EXCEPT !.items_price = Len(items),
                                    !.tax_price = charges[1],
                                    !.shipping_price = charges[2],
                                    !.now = now])

\* The response is sent; the client may send its next request.
Respond(c) ==
    /\ req[c].kind # "none" /\ req[c].pc = "done"
    /\ req' = [req EXCEPT ![c] = Idle]
    /\ UNCHANGED <<stock, orders, initial_stock, users, reviews>>

InitSequential ==
    /\ stock = [p \in Products |-> MaxDocs]
    /\ orders = <<>>
    /\ req = [c \in Clients |-> Idle]
    /\ initial_stock = stock
    /\ users = <<>>
    /\ reviews = [p \in Products |-> Unreviewed]

NextSequential ==
    \E c \in {"c1"} :
        \/ StartCreateOrder(c)
        \/ CreateValidate(c)
        \/ CreateInsert(c)
        \/ CreateFetch(c)
        \/ CreateDecrement(c)
        \/ StartCancel(c)
        \/ CancelRestore(c)
        \/ CancelWrite(c)
        \/ StartUpdate(c)
        \/ UpdateWrite(c)
        \/ StartDeliver(c)
        \/ DeliverWrite(c)
        \/ Reload(c)
        \/ Respond(c)

SpecSequential == InitSequential /\ [][NextSequential]_vars

\* Orders placed, cancelled and delivered at the readings of the clock, and
\* the statistics asked for in between.
NextStats ==
    \E c \in {"c1"} :
        \/ StartCreateOrderAt(c)
        \/ CreateValidate(c)
        \/ CreateInsert(c)
        \/ CreateFetch(c)
        \/ CreateDecrement(c)
        \/ StartCancel(c)
        \/ CancelRestore(c)
        \/ CancelWrite(c)
        \/ StartUpdate(c)
        \/ UpdateWrite(c)
        \/ StartDeliver(c)
        \/ DeliverWrite(c)
        \/ Reload(c)
        \/ GetSalesStats(c)
        \/ Respond(c)

SpecStats == InitSequential /\ [][NextStats]_vars

(***************************************************************************)
(* ProductService.update_stock: the stock adjustment called on its own,    *)
(* with any product id and any change.                                     *)
(***************************************************************************)
QuantityChanges == (0 - MaxQty - 1)..(MaxQty + 1)

\* The most stock the adjustments are followed up to.
StockCap == MaxInitStock + MaxQty

UpdateStock(c) ==
    /\ req[c].kind = "none"
    /\ \E product_id \in Products \cup {MissingProduct},
          quantity_change \in QuantityChanges :
          /\ product_id \in DOMAIN stock
                => stock[product_id] + quantity_change <= StockCap
          /\ update_stock(product_id, quantity_change)
          /\ Step(c, [Fresh(c, "update_stock", "-", <<>>, 0, "-", "done")
                        EXCEPT !.product_id = product_id,
                               !.quantity_change = quantity_change,
                               !.result =
                                   IF update_stock_ok(product_id,
                                                      quantity_change)
                                   THEN "True" ELSE "False"])
    /\ UNCHANGED <<orders, initial_stock, users, reviews>>

InitStock ==
    /\ stock \in [Products -> 0..MaxInitStock]
    /\ orders = <<>>
    /\ req = [c \in Clients |-> Idle]
    /\ initial_stock = stock
    /\ users = <<>>
    /\ reviews = [p \in Products |-> Unreviewed]

NextStock == \E c \in Clients : UpdateStock(c) \/ Respond(c)

SpecStock == InitStock /\ [][NextStock]_vars

(***************************************************************************)
(* AuthService.register behind POST /auth/register.  The users collection  *)
(* has a unique index on email.                                            *)
(***************************************************************************)
\* email_exists that looks the address up as it was typed.
email_exists_as_typed(email) ==
    \E k \in DOMAIN users : users[k].email = email

\* MongoUserRepository.email_exists
email_exists(email) ==
    \E k \in DOMAIN users : users[k].email = lower(email)

\* The status code of the register endpoint: 201, 400 for the ConflictError
\* it catches, 500 from the generic handler for anything else.
register_status_code(result) ==
    CASE result = "ok" -> 201
      [] result = "ConflictError" -> 400
      [] OTHER -> 500

\* A register request arrives: the email_exists test.
StartRegister(c) ==
    /\ req[c].kind = "none"
    /\ \E email \in Emails :
          LET r == [Fresh(c, "register", "-", <<>>, 0, "-", "insert")
                      EXCEPT !.email = email]
          IN  IF email_exists(email)
              THEN Raise(c, r, "ConflictError")
              ELSE Step(c, r)
    /\ UNCHANGED <<stock, orders, initial_stock, users, reviews>>

\* User(email=email.lower(), role=USER) and the insert_one of
\* BaseMongoRepository.create, which the unique index on email rejects
\* when a user has the address.
RegisterInsert(c) ==
    LET r == req[c]
        user == [email |-> lower(r.email), role |-> "user"]
    IN  /\ r.kind = "register" /\ r.pc = "insert"
        /\ IF \E k \in DOMAIN users : users[k].email = user.email
           THEN /\ Raise(c, r, "DuplicateKeyError")
                /\ UNCHANGED users
           ELSE /\ users' = Append(users, user)
                /\ Step(c, [r EXCEPT !.user_id = Len(users) + 1,
                                     !.pc = "fetch"])
        /\ UNCHANGED <<stock, orders, initial_stock, reviews>>

\* The find_one of BaseMongoRepository.create, then create_access_token
\* with the id of the created user.
RegisterFetch(c) ==
    LET r == req[c]
    IN  /\ r.kind = "register" /\ r.pc = "fetch"
        /\ Step(c, [r EXCEPT !.pc = "done", !.result = "ok",
                             !.token = r.user_id])
        /\ UNCHANGED <<stock, orders, initial_stock, users, reviews>>

InitAuth ==
    /\ stock = [p \in Products |-> 0]
    /\ orders = <<>>
    /\ req = [c \in Clients |-> Idle]
    /\ initial_stock = stock
    /\ users = <<>>
    /\ reviews = [p \in Products |-> Unreviewed]

NextAuth ==
    \E c \in Clients :
        \/ StartRegister(c)
        \/ RegisterInsert(c)
        \/ RegisterFetch(c)
        \/ Respond(c)

SpecAuth == InitAuth /\ [][NextAuth]_vars

(***************************************************************************)
(* BaseMongoRepository.find_with_pagination on the orders collection:      *)
(* count_documents, then find sorted by created_at, newest first.          *)
(***************************************************************************)
\* Matching with the filter on the user left out.
Matching_any_user(user) == DOMAIN orders

\* The ids of the orders that pass the filter: every order, or the orders
\* of one user.
Matching(user) ==
    {o \in DOMAIN orders : user = "-" \/ orders[o].user = user}

\* The ways to list the ids S newest first; orders created at the same time
\* come in any order.
SortedNewestFirst(S) ==
    {f \in [1..Cardinality(S) -> S] :
        /\ \A j, k \in DOMAIN f : j # k => f[j] # f[k]
        /\ \A j, k \in DOMAIN f :
              j < k => orders[f[j]].created_at >= orders[f[k]].created_at}

\* cursor.skip(skip).limit(limit)
skip_limit(sorted, skip, limit) ==
    SubSeq(sorted, skip + 1,
           IF skip + limit < Len(sorted) THEN skip + limit ELSE Len(sorted))

Pages == 1..2
Limits == 1..2

\* total = count_documents(query)
CountOrders(c, r) ==
    /\ Step(c, [r EXCEPT !.total = Cardinality(Matching(r.user)),
                         !.pc = "find"])
    /\ UNCHANGED <<stock, orders, initial_stock, users, reviews>>

\* find_many(query, sort, skip, limit); the entities and the total are
\* returned.
FindOrders(c) ==
    LET r == req[c]
    IN  /\ r.kind \in {"all_orders", "my_orders"} /\ r.pc = "find"
        /\ \E sorted \in SortedNewestFirst(Matching(r.user)) :
              LET ids == skip_limit(sorted, (r.page - 1) * r.limit,
                                    r.limit)
              IN  Step(c, [r EXCEPT !.pc = "done", !.result = "ok",
                                    !.listed =
                                        [k \in DOMAIN ids |->
                                            to_entity(orders[ids[k]])]])
        /\ UNCHANGED <<stock, orders, initial_stock, users, reviews>>

(***************************************************************************)
(* ProductService.create_product, update_product and delete_product.  Of   *)
(* a product only its stock is followed.                                   *)
(***************************************************************************)
NewProduct == "N"                \* the id given to a created product

\* Product(...) and the insert_one of BaseMongoRepository.create.
CreateProduct(c, r) ==
    /\ r.product_id \notin DOMAIN stock
    /\ stock' = [p \in DOMAIN stock \cup {r.product_id} |->
                    IF p = r.product_id THEN r.new_stock ELSE stock[p]]
    /\ Step(c, [r EXCEPT !.pc = "fetch_product"])
    /\ UNCHANGED <<orders, initial_stock, users, reviews>>

\* get_product: NotFoundError when no product has the id.  update_product
\* then sets the fields that were given on the entity it has loaded.
GetProduct(c, r, next) ==
    /\ IF r.product_id \notin DOMAIN stock
       THEN Raise(c, r, "NotFoundError")
       ELSE Step(c, [r EXCEPT !.new_stock = IF r.new_stock # NoStock
                                            THEN r.new_stock
                                            ELSE stock[r.product_id],
                              !.pc = next])
    /\ UNCHANGED <<stock, orders, initial_stock, users, reviews>>

\* BaseMongoRepository.update: one update_one that $sets every field of the
\* entity, the stock included.
UpdateProductWrite(c) ==
    LET r == req[c]
    IN  /\ r.kind = "update_product" /\ r.pc = "write"
        /\ stock' = IF r.product_id \in DOMAIN stock
                    THEN [stock EXCEPT ![r.product_id] = r.new_stock]
                    ELSE stock
        /\ Step(c, [r EXCEPT !.pc = "fetch_product"])
        /\ UNCHANGED <<orders, initial_stock, users, reviews>>

\* The find_one that ends create and update; the endpoint then reads the
\* fields of the product, which fails when there is none any more.
FetchProduct(c) ==
    LET r == req[c]
    IN  /\ r.pc = "fetch_product"
        /\ IF r.product_id \in DOMAIN stock
           THEN Step(c, [r EXCEPT !.pc = "done", !.result = "ok"])
           ELSE Raise(c, r, "AttributeError")
        /\ UNCHANGED <<stock, orders, initial_stock, users, reviews>>

\* DeleteProductDelete that also takes the lines of the product out of
\* every order, as a delete cascading over a foreign key would.
DeleteProductDelete_cascading(c) ==
    LET r == req[c]
        Other(item) == item.product # r.product_id
    IN  /\ r.kind = "delete_product" /\ r.pc = "delete"
        /\ stock' = [p \in DOMAIN stock \ {r.product_id} |-> stock[p]]
        /\ orders' = [o \in DOMAIN orders |->
                         [orders[o] EXCEPT !.order_items = SelectSeq(@, Other)]]
        /\ Step(c, [r EXCEPT !.pc = "done", !.result = "ok"])
        /\ UNCHANGED <<initial_stock, users, reviews>>

\* BaseMongoRepository.delete: delete_one by _id.
DeleteProductDelete(c) ==
    LET r == req[c]
    IN  /\ r.kind = "delete_product" /\ r.pc = "delete"
        /\ stock' = [p \in DOMAIN stock \ {r.product_id} |-> stock[p]]
        /\ Step(c, [r EXCEPT !.pc = "done", !.result = "ok"])
        /\ UNCHANGED <<orders, initial_stock, users, reviews>>

(***************************************************************************)
(* The admin endpoints: each depends on get_current_admin, which is        *)
(* resolved before the body of the endpoint runs.                          *)
(***************************************************************************)
\* User.is_admin
is_admin(user) == user.role = "admin"

\* get_current_admin that lets every authenticated user through.
get_current_admin_any_role(user) == TRUE

\* get_current_admin: passes for an admin, raises 403 for anyone else.
get_current_admin(user) == is_admin(user)

\* The request r of an authenticated user is refused with 403.
Refuse(c, r) ==
    /\ Raise(c, r, "HTTP 403")
    /\ UNCHANGED <<stock, orders, initial_stock, users, reviews>>

\* The record of a request to an admin endpoint.
AdminRequest(c, kind, caller, pc) ==
    [Fresh(c, kind, "-", <<>>, 0, "-", pc) EXCEPT !.caller = caller]

\* POST /products/admin/product/new
AdminCreateProduct(c) ==
    /\ req[c].kind = "none"
    /\ \E caller \in DOMAIN users, new_stock \in 0..MaxInitStock :
          LET r == [AdminRequest(c, "create_product", caller, "insert")
                      EXCEPT !.product_id = NewProduct,
                             !.new_stock = new_stock]
          IN  IF get_current_admin(users[caller])
              THEN CreateProduct(c, r)
              ELSE Refuse(c, r)

\* PUT /products/admin/product/{product_id}
AdminUpdateProduct(c) ==
    /\ req[c].kind = "none"
    /\ \E caller \in DOMAIN users,
          product_id \in Products \cup {MissingProduct},
          new_stock \in {NoStock} \cup 0..MaxInitStock :
          LET r == [AdminRequest(c, "update_product", caller, "load")
                      EXCEPT !.product_id = product_id,
                             !.given_stock = new_stock,
                             !.new_stock = new_stock]
          IN  IF get_current_admin(users[caller])
              THEN GetProduct(c, r, "write")
              ELSE Refuse(c, r)

\* DELETE /products/admin/product/{product_id}
AdminDeleteProduct(c) ==
    /\ req[c].kind = "none"
    /\ \E caller \in DOMAIN users,
          product_id \in Products \cup {MissingProduct} :
          LET r == [AdminRequest(c, "delete_product", caller, "load")
                      EXCEPT !.product_id = product_id]
          IN  IF get_current_admin(users[caller])
              THEN GetProduct(c, r, "delete")
              ELSE Refuse(c, r)

\* GET /orders/admin/orders
AdminGetAllOrders(c) ==
    /\ req[c].kind = "none"
    /\ \E caller \in DOMAIN users, page \in Pages, limit \in Limits :
          LET r == [AdminRequest(c, "all_orders", caller, "count")
                      EXCEPT !.page = page, !.limit = limit]
          IN  IF get_current_admin(users[caller])
              THEN CountOrders(c, r)
              ELSE Refuse(c, r)

\* PUT /orders/admin/order/{order_id}
AdminUpdateOrderStatus(c) ==
    /\ req[c].kind = "none"
    /\ \E caller \in DOMAIN users, oid \in OrderIds, status \in OrderStatus :
          LET r == [AdminRequest(c, "update", caller, "load")
                      EXCEPT !.oid = oid, !.status = status]
          IN  IF get_current_admin(users[caller])
              THEN LoadForTransition(c, r)
              ELSE Refuse(c, r)

\* PUT /orders/admin/order/{order_id}/deliver
AdminMarkOrderDelivered(c) ==
    /\ req[c].kind = "none"
    /\ \E caller \in DOMAIN users, oid \in OrderIds :
          LET r == [AdminRequest(c, "deliver", caller, "load")
                      EXCEPT !.oid = oid, !.status = DELIVERED]
          IN  IF get_current_admin(users[caller])
              THEN LoadForTransition(c, r)
              ELSE Refuse(c, r)

\* GET /orders/admin/stats
AdminGetSalesStats(c) ==
    /\ req[c].kind = "none"
    /\ \E caller \in DOMAIN users, end_date \in {None} \cup 1..MaxTime :
          LET r == [AdminRequest(c, "stats", caller, "done")
                      EXCEPT !.end_date = end_date]
          IN  IF get_current_admin(users[caller])
              THEN SalesStats(c, r)
              ELSE Refuse(c, r)

\* Two accounts, a customer and an admin; one product; at most one order,
\* in a status from which an admin can move it on.
InitAdmin ==
    /\ stock \in [{"P"} -> 0..MaxInitStock]
    /\ orders \in {<<>>} \cup
          {<<o>> : o \in {e \in EarlierOrders :
                /\ e.order_status \in {SHIPPED, OUT_FOR_DELIVERY}
                /\ ~e.delivered_at}}
    /\ req = [c \in Clients |-> Idle]
    /\ initial_stock = [p \in Products |-> 0]
    /\ users = <<[email |-> [mailbox |-> "ann", upper |-> FALSE],
                  role |-> "user"],
                 [email |-> [mailbox |-> "ben", upper |-> FALSE],
                  role |-> "admin"]>>
    /\ reviews = [p \in Products |-> Unreviewed]

NextAdmin ==
    \E c \in Clients :
        \/ AdminCreateProduct(c)
        \/ AdminUpdateProduct(c)
        \/ AdminDeleteProduct(c)
        \/ AdminGetAllOrders(c)
        \/ AdminUpdateOrderStatus(c)
        \/ AdminMarkOrderDelivered(c)
        \/ AdminGetSalesStats(c)
        \/ UpdateProductWrite(c)
        \/ FetchProduct(c)
        \/ DeleteProductDelete(c)
        \/ FindOrders(c)
        \/ UpdateWrite(c)
        \/ DeliverWrite(c)
        \/ Reload(c)

SpecAdmin == InitAdmin /\ [][NextAdmin]_vars

(***************************************************************************)
(* The order workflow next to the product administration: orders are       *)
(* placed, cancelled and moved on while an admin edits or deletes the      *)
(* product they name.                                                      *)
(***************************************************************************)
NextCatalog ==
    \E c \in Clients :
        \/ StartCreate(c)
        \/ CreateValidate(c)
        \/ CreateInsert(c)
        \/ CreateFetch(c)
        \/ CreateDecrement(c)
        \/ StartCancel(c)
        \/ CancelRestore(c)
        \/ CancelWrite(c)
        \/ AdminUpdateOrderStatus(c)
        \/ UpdateWrite(c)
        \/ AdminMarkOrderDelivered(c)
        \/ DeliverWrite(c)
        \/ Reload(c)
        \/ AdminUpdateProduct(c)
        \/ UpdateProductWrite(c)
        \/ FetchProduct(c)
        \/ AdminDeleteProduct(c)
        \/ DeleteProductDelete(c)

SpecCatalog == InitAdmin /\ [][NextCatalog]_vars

(***************************************************************************)
(* The endpoints by which a user reads orders: GET /orders/{order_id}      *)
(* (get_user_order) and GET /orders/me (get_user_orders).                  *)
(***************************************************************************)
\* OrderService.get_user_order: get_order, then the ownership test.
GetUserOrder(c) ==
    /\ req[c].kind = "none"
    /\ \E oid \in OrderIds, user \in Users :
          LET r == Fresh(c, "get_order", user, <<>>, oid, "-", "done")
          IN  IF oid \notin DOMAIN orders
              THEN Raise(c, r, "NotFoundError")
              ELSE IF orders[oid].user # user
                   THEN Raise(c, r, "ForbiddenError")
                   ELSE Step(c, [r EXCEPT !.result = "ok",
                                          !.seen = to_entity(orders[oid])])
    /\ UNCHANGED <<stock, orders, initial_stock, users, reviews>>

\* OrderService.get_user_orders
GetUserOrders(c) ==
    /\ req[c].kind = "none"
    /\ \E user \in Users, page \in Pages, limit \in Limits :
          CountOrders(c, [Fresh(c, "my_orders", user, <<>>, 0, "-", "count")
                            EXCEPT !.page = page, !.limit = limit])

\* The orders two users placed earlier, oldest first.
StoredOrders ==
    {[e EXCEPT !.user = user, !.created_at = t] :
        e \in {x \in EarlierOrders :
                 /\ x.order_status \in {PROCESSING, DELIVERED}
                 /\ x.delivered_at = (x.order_status = DELIVERED)},
        user \in Users, t \in 1..MaxTime}

InitReads ==
    /\ stock = [p \in Products |-> 0]
    /\ orders \in {<<>>} \cup {<<a>> : a \in StoredOrders}
          \cup {pair \in {<<a, b>> : a \in StoredOrders, b \in StoredOrders} :
                    pair[1].created_at <= pair[2].created_at}
    /\ req = [c \in Clients |-> Idle]
    /\ initial_stock = [p \in Products |-> stock[p] + Held(orders, p)]
    /\ users = <<>>
    /\ reviews = [p \in Products |-> Unreviewed]

NextReads ==
    \E c \in Clients :
        \/ GetUserOrder(c)
        \/ GetUserOrders(c)
        \/ FindOrders(c)
        \/ StartCancel(c)
        \/ CancelRestore(c)
        \/ CancelWrite(c)
        \/ Reload(c)

SpecReads == InitReads /\ [][NextReads]_vars

(***************************************************************************)
(* Product reviews: ProductService.add_review and delete_review over       *)
(* MongoProductRepository.add_review, remove_review and                    *)
(* _recalculate_rating.  Every update_one and the aggregate is one step.   *)
(***************************************************************************)
\* ReviewCreateRequest: a rating from 0 to 5 and a comment.
ReviewInputs ==
    {[rating |-> 1, comment |-> "poor"], [rating |-> 5, comment |-> "fine"]}

\* The positions of the reviews of user_id among the reviews of a product.
ReviewsBy(product_id, user_id) ==
    {k \in DOMAIN reviews[product_id].reviews :
        reviews[product_id].reviews[k].user = user_id}

RECURSIVE SumRatings(_)
SumRatings(rs) ==
    IF rs = <<>> THEN 0 ELSE Head(rs).rating + SumRatings(Tail(rs))

\* The $project of _recalculate_rating and round(_, 1): 0 for no review,
\* else the average of the ratings, to the nearest tenth, in tenths.
average_rating(rs) ==
    IF Len(rs) = 0 THEN 0
    ELSE (20 * SumRatings(rs) + Len(rs)) \div (2 * Len(rs))

\* ProductService.get_product: NotFoundError for no product; the document
\* is validated as a Product, whose num_of_reviews is at least 0.
GetReviewedProduct(c, r, next, result) ==
    /\ IF r.product_id \notin DOMAIN reviews
       THEN Raise(c, r, "NotFoundError")
       ELSE IF reviews[r.product_id].num_of_reviews < 0
            THEN Raise(c, r, "pydantic.ValidationError")
            ELSE Step(c, [r EXCEPT !.pc = next, !.result = result])
    /\ UNCHANGED <<stock, orders, initial_stock, users, reviews>>

\* An add_review request arrives: the product is looked up.
StartAddReview(c) ==
    /\ req[c].kind = "none"
    /\ \E user \in Users, product_id \in {"P", MissingProduct},
          input \in ReviewInputs :
          GetReviewedProduct(
              c, [Fresh(c, "add_review", user, <<>>, 0, "-", "set")
                    EXCEPT !.product_id = product_id,
                           !.rating = input.rating,
                           !.comment = input.comment],
              "set", "none")

\* The first update_one of add_review: the filter matches the product when
\* it holds a review of the user, and $set writes the rating and comment
\* of the first such review.  matched_count == 0 leads to the push.
AddReviewSet(c) ==
    LET r == req[c]
        mine == IF r.product_id \in DOMAIN reviews
                THEN ReviewsBy(r.product_id, r.user) ELSE {}
        first == CHOOSE k \in mine : \A j \in mine : k <= j
    IN  /\ r.kind = "add_review" /\ r.pc = "set"
        /\ reviews' =
              IF mine = {} THEN reviews
              ELSE [reviews EXCEPT
                      ![r.product_id].reviews[first] =
                          [user |-> r.user, rating |-> r.rating,
                           comment |-> r.comment]]
        /\ Step(c, [r EXCEPT !.pc = IF mine = {} THEN "push"
                                    ELSE "aggregate"])
        /\ UNCHANGED <<stock, orders, initial_stock, users>>

\* The second update_one of add_review: $push of the review and $inc of
\* num_of_reviews in one write.
AddReviewPush(c) ==
    LET r == req[c]
    IN  /\ r.kind = "add_review" /\ r.pc = "push"
        /\ reviews' =
              IF r.product_id \notin DOMAIN reviews THEN reviews
              ELSE [reviews EXCEPT
                      ![r.product_id].reviews =
                          Append(@, [user |-> r.user, rating |-> r.rating,
                                     comment |-> r.comment]),
                      ![r.product_id].num_of_reviews = @ + 1]
        /\ Step(c, [r EXCEPT !.pc = "aggregate"])
        /\ UNCHANGED <<stock, orders, initial_stock, users>>

\* A delete_review request arrives; the update_one of remove_review: the
\* filter is the _id alone, $pull takes out every review of the user and
\* $inc lowers num_of_reviews by one.  modified_count is 0 only when no
\* product has the id; then False is returned.
StartRemoveReview(c) ==
    /\ req[c].kind = "none"
    /\ \E user \in Users, product_id \in {"P", MissingProduct} :
          LET r == [Fresh(c, "remove_review", user, <<>>, 0, "-", "aggregate")
                      EXCEPT !.product_id = product_id]
              Others(review) == review.user # user
          IN  IF product_id \notin DOMAIN reviews
              THEN /\ Step(c, [r EXCEPT !.pc = "done", !.result = "False"])
                   /\ UNCHANGED reviews
              ELSE /\ reviews' =
                         [reviews EXCEPT
                            ![product_id].reviews = SelectSeq(@, Others),
                            ![product_id].num_of_reviews = @ - 1]
                   /\ Step(c, r)
    /\ UNCHANGED <<stock, orders, initial_stock, users>>

\* _recalculate_rating: the aggregate over the product.
RecalculateAggregate(c) ==
    LET r == req[c]
    IN  /\ r.kind \in {"add_review", "remove_review"} /\ r.pc = "aggregate"
        /\ Step(c, [r EXCEPT !.average =
                                average_rating(reviews[r.product_id].reviews),
                             !.pc = "set_ratings"])
        /\ UNCHANGED <<stock, orders, initial_stock, users, reviews>>

\* _recalculate_rating: the update_one that $sets ratings.  remove_review
\* then returns True; add_review goes on to load the product again.
RecalculateSet(c) ==
    LET r == req[c]
    IN  /\ r.kind \in {"add_review", "remove_review"} /\ r.pc = "set_ratings"
        /\ reviews' = [reviews EXCEPT ![r.product_id].ratings = r.average]
        /\ Step(c, [r EXCEPT
                      !.pc = IF r.kind = "add_review" THEN "reload"
                             ELSE "done",
                      !.result = IF r.kind = "add_review" THEN @
                                 ELSE "True"])
        /\ UNCHANGED <<stock, orders, initial_stock, users>>

\* return await self.get_product(product_id), the end of add_review.
AddReviewReload(c) ==
    /\ req[c].kind = "add_review" /\ req[c].pc = "reload"
    /\ GetReviewedProduct(c, req[c], "done", "ok")

\* The review fields a product can have after requests served in turn: at
\* most one review of each user, counted, with the ratings of the last
\* recalculation.
ReviewedProducts ==
    LET One == {[user |-> u, rating |-> i.rating, comment |-> i.comment] :
                   u \in Users, i \in ReviewInputs}
        Lists == {<<>>} \cup {<<a>> : a \in One}
                    \cup {l \in {<<a, b>> : a \in One, b \in One} :
                            l[1].user # l[2].user}
    IN  {[reviews |-> l, num_of_reviews |-> Len(l),
          ratings |-> average_rating(l)] : l \in Lists}

InitReviews ==
    /\ stock = [p \in Products |-> 0]
    /\ orders = <<>>
    /\ req = [c \in Clients |-> Idle]
    /\ initial_stock = stock
    /\ users = <<>>
    /\ reviews \in {[p \in Products |->
                       IF p = "P" THEN d ELSE Unreviewed] :
                      d \in ReviewedProducts}

NextReviews ==
    \E c \in Clients :
        \/ StartAddReview(c)
        \/ AddReviewSet(c)
        \/ AddReviewPush(c)
        \/ StartRemoveReview(c)
        \/ RecalculateAggregate(c)
        \/ RecalculateSet(c)
        \/ AddReviewReload(c)

SpecReviews == InitReviews /\ [][NextReviews]_vars

(***************************************************************************)
(* Properties                                                              *)
(***************************************************************************)
Finished(c, kind) == req[c].kind = kind /\ req[c].pc = "done"

\* A request that ran with no concurrent request and has just ended: stock0
\* and orders0 (norders0 its length) are the database before it, stock and
\* orders the database after it.
RanAlone(c, kind) == Finished(c, kind) /\ req[c].solo

\* C1: under any interleaving of create_order and cancel_order requests the
\* stock of every product is >= 0 in every reachable state.
C1_StockNeverNegative == \A p \in Products : stock[p] >= 0

\* A create_order request has returned although the stock could not cover
\* what it ordered of P: a guarded decrement was rejected at stock 0.
C1_Witness ==
    \E c \in Clients :
        /\ Finished(c, "create") /\ req[c].result = "ok"
        /\ QtyOf(req[c].order_items, "P") > req[c].stock0["P"]
        /\ stock["P"] = 0

\* C2: of two concurrent create_order requests that each order quantity q
\* of the same product whose stock s satisfies q <= s < 2q, at most one
\* returns a created order.
C2_AtMostOneCreated ==
    \A a, b \in Clients :
        \A p \in Products, q \in 1..MaxQty :
            (/\ a # b
             /\ Finished(a, "create") /\ Finished(b, "create")
             /\ ~req[a].solo /\ ~req[b].solo
             /\ req[a].order_items
                   = <<[product |-> p, quantity |-> q, price |-> 1]>>
             /\ req[b].order_items
                   = <<[product |-> p, quantity |-> q, price |-> 1]>>
             /\ req[a].stock0[p] = req[b].stock0[p]
             /\ q <= req[a].stock0[p] /\ req[a].stock0[p] < 2 * q)
            => ~(req[a].result = "ok" /\ req[b].result = "ok")

\* C3: whenever no request is in progress, the stock of every product plus
\* the quantities of it held by the orders that are not Cancelled equals the
\* stock the product had before any order was placed.  Stated for the
\* behaviours in which only create_order and cancel_order requests were
\* served, the two operations that move stock.
C3_StockMatchesOrders ==
    (\A c \in Clients :
        req[c].pc = "done" /\ req[c].kind \in {"none", "create", "cancel"})
        => \A p \in Products : stock[p] + Held(orders, p) = initial_stock[p]

\* The transition table of section 4.1 of the specification.
TransitionTable ==
    {<<PROCESSING, CONFIRMED>>, <<PROCESSING, CANCELLED>>,
     <<CONFIRMED, SHIPPED>>, <<CONFIRMED, CANCELLED>>,
     <<SHIPPED, OUT_FOR_DELIVERY>>, <<SHIPPED, CANCELLED>>,
     <<OUT_FOR_DELIVERY, DELIVERED>>, <<DELIVERED, REFUNDED>>}

\* C4: every change of the persisted order_status of an order goes from a
\* status to one of its allowed next statuses, whatever the interleaving of
\* cancel_order, update_order_status and mark_as_delivered.
C4_OnlyLegalTransitions ==
    [][\A o \in DOMAIN orders :
          orders'[o].order_status # orders[o].order_status
              => <<orders[o].order_status, orders'[o].order_status>>
                     \in TransitionTable]_vars

\* C5: can_transition_to(current, target) is true for exactly the 8 pairs
\* of the transition table and false for the 41 others; so
\* update_order_status passes its test on exactly these pairs.
C5_CanTransitionMatchesTable ==
    /\ Cardinality(TransitionTable) = 8
    /\ Cardinality((OrderStatus \X OrderStatus) \ TransitionTable) = 41
    /\ \A current, target \in OrderStatus :
          can_transition_to(current, target)
              <=> <<current, target>> \in TransitionTable
    /\ \A current \in OrderStatus : ~can_transition_to(current, current)
    /\ \A c \in Clients :
          req[c].kind = "update" /\ req[c].seen # NoOrder
              => (req[c].result # "ValidationError"
                    <=> <<req[c].seen.order_status, req[c].status>>
                            \in TransitionTable)

\* update_order_status has accepted Out for Delivery -> Delivered.
C5_Witness ==
    \E c \in Clients :
        /\ req[c].kind = "update" /\ req[c].pc = "write"
        /\ req[c].seen.order_status = OUT_FOR_DELIVERY
        /\ req[c].status = DELIVERED

\* C6: when create_order, run with no concurrent request, returns an order,
\* the stock of every product is its stock before minus the total quantity
\* ordered of it, and the returned order is in status Processing.
C6_CreateDecrementsExactly ==
    \A c \in Clients :
        RanAlone(c, "create") /\ req[c].result = "ok"
            => /\ \A p \in Products :
                     stock[p] = req[c].stock0[p] - QtyOf(req[c].order_items, p)
               /\ req[c].ret = PROCESSING

\* Some item asks for more than the stock of its product.
ExceedsStock(items, s) ==
    \E k \in DOMAIN items :
        items[k].product \in Products /\ items[k].quantity > s[items[k].product]

\* Some item names a product that does not exist.
NamesMissingProduct(items) ==
    \E k \in DOMAIN items : items[k].product \notin Products

\* C7: a create_order request with an item whose quantity exceeds the
\* current stock of its product fails with ValidationError, persists no
\* order and leaves the stock of every product unchanged.
C7_InsufficientStockRejected ==
    \A c \in Clients :
        RanAlone(c, "create") /\ ExceedsStock(req[c].order_items, req[c].stock0)
            => /\ req[c].result = "ValidationError"
               /\ Len(orders) = req[c].norders0
               /\ stock = req[c].stock0

\* create_order was rejected at its second item, after the first one had
\* passed the validation.
C7_Witness ==
    \E c \in Clients :
        /\ RanAlone(c, "create") /\ req[c].result = "ValidationError"
        /\ req[c].i = 2
        /\ req[c].order_items[2].product \in Products
        /\ req[c].order_items[2].quantity
              > req[c].stock0[req[c].order_items[2].product]

\* C8: a create_order request with an item that names a product that does
\* not exist fails with NotFoundError, persists no order and changes no
\* stock.
C8_MissingProductNotFound ==
    \A c \in Clients :
        RanAlone(c, "create") /\ NamesMissingProduct(req[c].order_items)
            => /\ req[c].result = "NotFoundError"
               /\ Len(orders) = req[c].norders0
               /\ stock = req[c].stock0

CancelByOwnerIn(c, statuses) ==
    /\ RanAlone(c, "cancel")
    /\ req[c].seen # NoOrder
    /\ req[c].seen.user = req[c].user
    /\ req[c].seen.order_status \in statuses

\* C9: cancel_order by the owner of an order in Processing, Confirmed or
\* Shipped, with no concurrent request, succeeds: the stock of every product
\* is higher by the quantity ordered of it, the persisted status and the
\* status of the returned order are Cancelled.
C9_CancelRestoresStock ==
    \A c \in Clients :
        CancelByOwnerIn(c, {PROCESSING, CONFIRMED, SHIPPED})
            => /\ req[c].result = "ok"
               /\ \A p \in Products :
                     stock[p] = req[c].stock0[p]
                                   + QtyOf(req[c].seen.order_items, p)
               /\ orders[req[c].oid].order_status = CANCELLED
               /\ req[c].ret = CANCELLED

\* The owner has cancelled a Shipped order.
C9_Witness ==
    \E c \in Clients :
        /\ CancelByOwnerIn(c, {SHIPPED})
        /\ req[c].result = "ok"
        /\ req[c].seen.order_items # <<>>

\* C10: cancel_order by the owner of an order in Out for Delivery,
\* Delivered, Cancelled or Refunded fails with ValidationError and leaves
\* the stock of every product and the order unchanged.
C10_CancelRejected ==
    \A c \in Clients :
        CancelByOwnerIn(c, {OUT_FOR_DELIVERY, DELIVERED, CANCELLED, REFUNDED})
            => /\ req[c].result = "ValidationError"
               /\ stock = req[c].stock0
               /\ orders[req[c].oid] = req[c].seen

\* The owner has tried to cancel an order that was already Cancelled.
C10_Witness ==
    \E c \in Clients :
        /\ CancelByOwnerIn(c, {CANCELLED})
        /\ req[c].result = "ValidationError"

\* C11: cancel_order, with no concurrent request, fails with NotFoundError
\* when no order has the given id and with ForbiddenError when the order
\* belongs to another user, whatever the status of the order (the ownership
\* test comes before the can_cancel test); in both cases the stock of every
\* product and every order are unchanged.
C11_CancelNotFoundOrForbidden ==
    \A c \in Clients :
        RanAlone(c, "cancel")
            => /\ req[c].oid \notin DOMAIN req[c].orders0
                    => /\ req[c].result = "NotFoundError"
                       /\ stock = req[c].stock0
                       /\ orders = req[c].orders0
               /\ (/\ req[c].oid \in DOMAIN req[c].orders0
                   /\ req[c].orders0[req[c].oid].user # req[c].user)
                    => /\ req[c].result = "ForbiddenError"
                       /\ stock = req[c].stock0
                       /\ orders = req[c].orders0

\* A user who does not own it has tried to cancel an order that could not
\* be cancelled anyway, and was told ForbiddenError.
C11_Witness ==
    \E c \in Clients :
        /\ RanAlone(c, "cancel")
        /\ req[c].oid \in DOMAIN req[c].orders0
        /\ req[c].orders0[req[c].oid].user # req[c].user
        /\ ~is_cancellable(req[c].orders0[req[c].oid].order_status)
        /\ req[c].result = "ForbiddenError"

RECURSIVE LinesTotal(_, _)
\* price * quantity summed over the first k line items.
LinesTotal(items, k) ==
    IF k = 0 THEN 0
    ELSE items[k].price * items[k].quantity + LinesTotal(items, k - 1)

TotalsHold(order) ==
    /\ order.items_price = LinesTotal(order.order_items, Len(order.order_items))
    /\ order.total_price
          = order.items_price + order.tax_price + order.shipping_price

\* C13: every order built and persisted by create_order has items_price
\* equal to the sum of price * quantity over its items, whatever items_price
\* the request supplied, and total_price equal to items_price + tax_price +
\* shipping_price; both equalities hold for the returned order and keep
\* holding for the stored order through every later status operation.
C13_TotalsHold ==
    /\ \A o \in DOMAIN orders : TotalsHold(orders[o])
    /\ \A c \in Clients :
          req[c].kind = "create" /\ req[c].seen # NoOrder
              => TotalsHold(req[c].seen)

\* An order placed with charges and with a supplied items_price that is not
\* the sum over its items has been brought to Delivered, and a second one
\* has just been returned by create_order.
C13_Witness ==
    \E c \in Clients :
        /\ Finished(c, "create") /\ req[c].result = "ok"
        /\ req[c].items_price # req[c].seen.items_price
        /\ req[c].oid = 2
        /\ orders[1].order_status = DELIVERED
        /\ orders[1].tax_price > 0 /\ orders[1].shipping_price > 0
        /\ orders[1].total_price > orders[1].items_price

\* The orders created within the inclusive range; a bound that was not
\* given does not bound.
OrdersInRange(start_date, end_date) ==
    {o \in DOMAIN orders :
        /\ start_date = None \/ start_date <= orders[o].created_at
        /\ end_date = None \/ orders[o].created_at <= end_date}

RECURSIVE SalesOf(_)
\* total_price summed over the orders of the set S.
SalesOf(S) ==
    IF S = {} THEN 0
    ELSE LET o == CHOOSE x \in S : TRUE
         IN  orders[o].total_price + SalesOf(S \ {o})

\* C14: get_sales_stats(start, end) answers over exactly the orders whose
\* created_at lies in the inclusive range: total_orders is their number,
\* total_sales the sum of their total_price (Cancelled and Refunded orders
\* included), delivered_orders, processing_orders and cancelled_orders the
\* numbers of them in these statuses; when no order lies in the range every
\* field is 0 and no error is raised.
C14_SalesStats ==
    \A c \in Clients :
        Finished(c, "stats")
            => LET S == OrdersInRange(req[c].start_date, req[c].end_date)
                   In(status) ==
                       Cardinality({o \in S : orders[o].order_status = status})
               IN  /\ req[c].result = "ok"
                   /\ req[c].stats.total_orders = Cardinality(S)
                   /\ req[c].stats.total_sales = SalesOf(S)
                   /\ req[c].stats.delivered_orders = In(DELIVERED)
                   /\ req[c].stats.processing_orders = In(PROCESSING)
                   /\ req[c].stats.cancelled_orders = In(CANCELLED)
                   /\ S = {} => req[c].stats = ZeroStats

\* The statistics of one instant were asked for: of two stored orders the
\* one created at that instant, a Cancelled one, was counted with its
\* total_price, the other one was not.
C14_Witness ==
    \E c \in Clients :
        /\ Finished(c, "stats")
        /\ req[c].start_date # None /\ req[c].end_date = req[c].start_date
        /\ Len(orders) = 2
        /\ orders[2].created_at = req[c].end_date
        /\ orders[1].created_at < req[c].start_date
        /\ orders[2].order_status = CANCELLED
        /\ req[c].stats.total_orders = 1
        /\ req[c].stats.cancelled_orders = 1
        /\ req[c].stats.total_sales = orders[2].total_price
        /\ orders[2].total_price > 0

\* C15: update_stock(id, delta) returns false if and only if applying delta
\* would make the stock of the product negative; when it returns true the
\* stock has changed by exactly delta, when it returns false the stock of
\* every product is unchanged.
C15_UpdateStockFalseIffNegative ==
    \A c \in Clients :
        RanAlone(c, "update_stock")
            => LET id == req[c].product_id
                   delta == req[c].quantity_change
                   before == req[c].stock0
                   would_be_negative ==
                       id \in DOMAIN before /\ before[id] + delta < 0
               IN  /\ req[c].result = "False" <=> would_be_negative
                   /\ req[c].result = "True"
                        => stock = [before EXCEPT ![id] = @ + delta]
                   /\ req[c].result = "False" => stock = before

\* What bringing order oid to Delivered has to answer and to leave stored,
\* from the orders stored before.
DeliveredOutcome(before, oid) ==
    IF oid \notin DOMAIN before
    THEN [result |-> "NotFoundError", orders |-> before]
    ELSE IF <<before[oid].order_status, DELIVERED>> \notin TransitionTable
         THEN [result |-> "ValidationError", orders |-> before]
         ELSE [result |-> "ok",
               orders |-> [before EXCEPT ![oid] =
                             [@ EXCEPT !.order_status = DELIVERED,
                                       !.delivered_at = TRUE]]]

\* C16: mark_as_delivered(order_id) and update_order_status(order_id,
\* Delivered), each run with no concurrent request, have the same outcome
\* from the same stored orders: NotFoundError for a missing order,
\* ValidationError for an illegal transition, and on success the order in
\* status Delivered with delivered_at set and everything else unchanged.
C16_DeliverSameAsUpdate ==
    \A c \in Clients :
        (\/ RanAlone(c, "deliver")
         \/ RanAlone(c, "update") /\ req[c].status = DELIVERED)
            => /\ [result |-> req[c].result, orders |-> orders]
                    = DeliveredOutcome(req[c].orders0, req[c].oid)
               /\ stock = req[c].stock0

\* mark_as_delivered has brought an order that update_order_status had
\* moved to Out for Delivery on to Delivered.
C16_Witness ==
    \E a, b \in Clients :
        /\ Finished(a, "update") /\ req[a].status = OUT_FOR_DELIVERY
        /\ req[a].result = "ok"
        /\ RanAlone(b, "deliver") /\ req[b].oid = req[a].oid
        /\ req[b].result = "ok"
        /\ ~req[b].orders0[req[b].oid].delivered_at
        /\ orders[req[b].oid].delivered_at

\* Two addresses that differ at most in case.
SameEmail(a, b) == a.mailbox = b.mailbox

\* C17: a register request that arrives when a user already has its email,
\* compared without regard to case, is rejected with ConflictError, 400 at
\* the endpoint, creates no user and issues no token; and no two users ever
\* have the same email.
C17_DuplicateEmailRejected ==
    /\ \A c \in Clients :
          (/\ req[c].kind = "register"
           /\ \E k \in DOMAIN req[c].users0 :
                 SameEmail(req[c].users0[k].email, req[c].email))
              => /\ req[c].pc = "done"
                 /\ req[c].result = "ConflictError"
                 /\ register_status_code(req[c].result) = 400
                 /\ req[c].user_id = 0
                 /\ req[c].token = 0
    /\ \A j, k \in DOMAIN users :
          j # k => ~SameEmail(users[j].email, users[k].email)

\* An address was registered a second time, now typed in upper case, and
\* was rejected.
C17_Witness ==
    \E c \in Clients :
        /\ Finished(c, "register") /\ req[c].result = "ConflictError"
        /\ req[c].email.upper
        /\ \E k \in DOMAIN users :
              /\ k \in DOMAIN req[c].users0
              /\ users[k].email = lower(req[c].email)
        /\ Len(users) = Len(req[c].users0)

\* The kinds of request that only the admin endpoints start.
AdminOnly ==
    {"create_product", "update_product", "delete_product", "all_orders",
     "update", "deliver", "stats"}

\* C18: a request to an admin endpoint (create, update or delete a
\* product, list all orders, update the status of an order, mark an order
\* delivered, sales statistics) by an authenticated user who is not an
\* admin ends at once with 403: no step of the operation runs, and no
\* product, stock or order has changed when it has ended.
C18_AdminOnly ==
    \A c \in Clients :
        (/\ req[c].kind \in AdminOnly
         /\ req[c].caller \in DOMAIN users
         /\ users[req[c].caller].role # "admin")
            => /\ req[c].pc = "done"
               /\ req[c].result = "HTTP 403"
               /\ req[c].solo => stock = req[c].stock0
                                 /\ orders = req[c].orders0

\* A customer has asked to mark as delivered an order that an admin could
\* have marked, and was refused.
C18_Witness ==
    \E c \in Clients :
        /\ RanAlone(c, "deliver")
        /\ users[req[c].caller].role = "user"
        /\ req[c].result = "HTTP 403"
        /\ req[c].oid \in DOMAIN orders
        /\ orders[req[c].oid].order_status = OUT_FOR_DELIVERY

\* The stored orders of one user, oldest first: all that this user may
\* read.
OwnOrders(user) ==
    LET Own(o) == o.user = user
    IN  SelectSeq(orders, Own)

\* The ways to list the documents docs newest first.
NewestFirst(docs) ==
    {[k \in DOMAIN docs |-> docs[f[k]]] :
        f \in {g \in [DOMAIN docs -> DOMAIN docs] :
                 /\ \A j, k \in DOMAIN docs : j # k => g[j] # g[k]
                 /\ \A j, k \in DOMAIN docs :
                       j < k => docs[g[j]].created_at
                                   >= docs[g[k]].created_at}}

\* Page number page of the listing, limit documents a page.
PageOf(listing, page, limit) ==
    [k \in 1..(IF Len(listing) - (page - 1) * limit < 0 THEN 0
               ELSE IF Len(listing) - (page - 1) * limit < limit
                    THEN Len(listing) - (page - 1) * limit
                    ELSE limit) |->
        listing[(page - 1) * limit + k]]

\* C19: get_user_order(order_id, A) returns an order only if the user of
\* that order is A and answers ForbiddenError, with no order, for an order
\* of another user; get_user_orders(A) returns only orders whose user is A;
\* run with no concurrent request it returns a page and a total computed
\* from the orders of A alone, so nothing of the orders of another user
\* shows in what A reads.
C19_OwnOrdersOnly ==
    \A c \in Clients :
        /\ req[c].kind = "get_order"
              => /\ req[c].result = "ok" => req[c].seen.user = req[c].user
                 /\ (/\ req[c].oid \in DOMAIN req[c].orders0
                     /\ req[c].orders0[req[c].oid].user # req[c].user)
                       => /\ req[c].result = "ForbiddenError"
                          /\ req[c].seen = NoOrder
        /\ req[c].kind = "my_orders"
              => /\ \A k \in DOMAIN req[c].listed :
                       req[c].listed[k].user = req[c].user
                 /\ RanAlone(c, "my_orders")
                       => /\ req[c].total = Len(OwnOrders(req[c].user))
                          /\ \E listing \in NewestFirst(OwnOrders(req[c].user)) :
                                req[c].listed
                                    = PageOf(listing, req[c].page, req[c].limit)

\* A user has listed their orders while the newest stored order is one of
\* another user: only their own order was returned.
C19_Witness ==
    \E c \in Clients :
        /\ RanAlone(c, "my_orders")
        /\ Len(orders) = 2
        /\ orders[1].user = req[c].user /\ orders[2].user # req[c].user
        /\ orders[2].created_at > orders[1].created_at
        /\ req[c].page = 1
        /\ req[c].listed = <<orders[1]>>
        /\ req[c].total = 1

\* Client c takes a step of its own request in this step.
Moves(c) == req'[c].pc # req[c].pc \/ req'[c].i # req[c].i

\* Another request names the order that client c placed: the only way the
\* status of that order changes while create_order runs.
WrittenByAnother(c) ==
    \E q \in Clients \ {c} :
        /\ req[q].kind \in {"update", "deliver", "cancel"}
        /\ req[q].oid = req[c].oid

\* C20: create_order persists the order, in status Processing, before it
\* issues any stock decrement, and a guarded decrement that is rejected for
\* some item sets off no compensation: the step changes neither stock nor
\* orders, the loop goes on to the next item, after the last item the
\* request returns the order as it was read back after the insert, which is
\* in status Processing unless another request wrote that order, and no
\* step of the request ever gives stock back, so the decrements applied to
\* other items stay.
C20_NoCompensation ==
    [][\A c \in Clients :
          LET r == req[c]
              item == r.order_items[r.i]
              last == r.i = Len(r.order_items)
          IN  (r.kind = "create" /\ Moves(c))
                => /\ \A p \in Products : stock'[p] <= stock[p]
                   /\ r.pc # "decrement" => stock' = stock
                   /\ r.pc = "insert"
                         => /\ orders' = Append(orders, new_order(r))
                            /\ new_order(r).order_status = PROCESSING
                   /\ r.pc = "decrement"
                         => /\ r.oid \in DOMAIN orders
                            /\ orders[r.oid].user = r.user
                            /\ orders[r.oid].order_items = r.order_items
                            /\ orders' = orders
                            /\ stock[item.product] < item.quantity
                                  => /\ stock' = stock
                                     /\ req'[c].rejected
                                           = r.rejected \cup {r.i}
                                     /\ ~last => /\ req'[c].pc = "decrement"
                                                 /\ req'[c].i = r.i + 1
                                     /\ last
                                           => /\ req'[c].pc = "done"
                                              /\ req'[c].result = "ok"
                                              /\ req'[c].seen = r.seen
                                              /\ req'[c].ret
                                                    = r.seen.order_status
                                              /\ \/ req'[c].ret = PROCESSING
                                                 \/ WrittenByAnother(c)]_vars

\* A create_order request has returned its order although the decrement of
\* one item was rejected after the decrement of another item was applied:
\* the order is stored and the applied decrement is still in the stock.
C20_Witness ==
    \E c \in Clients :
        /\ RanAlone(c, "create") /\ req[c].result = "ok"
        /\ req[c].rejected = {2}
        /\ req[c].ret = PROCESSING
        /\ req[c].oid \in DOMAIN orders
        /\ orders[req[c].oid].order_status = PROCESSING
        /\ \E p \in Products :
              stock[p] = req[c].stock0[p] - req[c].order_items[1].quantity

\* C21: update_order_status and mark_as_delivered, whether they succeed or
\* fail and whatever the target status, Cancelled included, leave the stock
\* of every product unchanged: no step of such a request changes stock, and
\* every step that changes stock is a decrement of create_order or a
\* restoration of cancel_order.
C21_StatusChangesKeepStock ==
    [][/\ \A c \in Clients :
             (Moves(c) /\ req'[c].kind \in {"update", "deliver"})
                 => stock' = stock
       /\ stock' # stock
             => \E c \in Clients :
                   /\ Moves(c)
                   /\ \/ req[c].kind = "create" /\ req[c].pc = "decrement"
                      \/ req[c].kind = "cancel" /\ req[c].pc = "restore"]_vars

\* An administrator has moved an order that holds stock to Cancelled with
\* update_order_status, no other request running: the stock is what it was.
C21_Witness ==
    \E c \in Clients :
        /\ RanAlone(c, "update") /\ req[c].result = "ok"
        /\ req[c].status = CANCELLED
        /\ orders[req[c].oid].order_status = CANCELLED
        /\ QtyOf(orders[req[c].oid].order_items, "P") > 0
        /\ stock = req[c].stock0

\* The fields of an order that are given at its creation.
FixedAtCreation(order) ==
    [user |-> order.user, order_items |-> order.order_items,
     items_price |-> order.items_price, tax_price |-> order.tax_price,
     shipping_price |-> order.shipping_price,
     total_price |-> order.total_price, created_at |-> order.created_at]

\* C22: once an order is stored, its id, user, items (product, price and
\* quantity of each), items_price, tax_price, shipping_price, total_price
\* and created_at are changed by no later step of any request: the order
\* stays under its id with these fields as they were, and a step of
\* update_product or delete_product changes no order at all.
C22_OrderFixedAtCreation ==
    [][/\ \A o \in DOMAIN orders :
             /\ o \in DOMAIN orders'
             /\ FixedAtCreation(orders'[o]) = FixedAtCreation(orders[o])
       /\ \A c \in Clients :
             (Moves(c) /\ req'[c].kind \in {"update_product", "delete_product"})
                 => orders' = orders]_vars

\* The product named by an order has been deleted and the order has been
\* delivered: the order still carries the line of that product with its
\* price and its totals.
C22_Witness ==
    \E c, d \in Clients :
        /\ Finished(c, "delete_product") /\ req[c].result = "ok"
        /\ req[c].product_id \notin DOMAIN stock
        /\ Finished(d, "deliver") /\ req[d].result = "ok"
        /\ orders[req[d].oid].order_status = DELIVERED
        /\ orders[req[d].oid].order_items[1].product = req[c].product_id
        /\ orders[req[d].oid].order_items[1].price = 1
        /\ orders[req[d].oid].total_price = 2

\* Order.is_paid; every stored order has a payment_info.
is_paid(order) == order.payment_status = "succeeded"

\* C23: every order persisted by create_order carries the payment status
\* the request supplied and has paid_at set if and only if that status is
\* "succeeded", so paid_at is set iff is_paid(); no later step of
\* cancel_order, update_order_status or mark_as_delivered changes paid_at
\* or the payment status of a stored order.
C23_PaidAtIffSucceeded ==
    [][/\ \A o \in DOMAIN orders' : orders'[o].paid_at = is_paid(orders'[o])
       /\ \A c \in Clients :
             (req[c].kind = "create" /\ req[c].pc = "insert" /\ Moves(c))
                 => LET new == orders'[Len(orders')]
                    IN  /\ Len(orders') = Len(orders) + 1
                        /\ new.payment_status = req[c].payment_status
                        /\ new.paid_at
                              = (req[c].payment_status = "succeeded")
       /\ \A o \in DOMAIN orders :
             /\ orders'[o].paid_at = orders[o].paid_at
             /\ orders'[o].payment_status = orders[o].payment_status]_vars

\* An order placed with a pending payment has been cancelled and an order
\* placed with a payment that succeeded has been delivered: the first has
\* no paid_at, the second has one.
C23_Witness ==
    /\ Len(orders) = 2
    /\ orders[1].payment_status = "pending" /\ ~orders[1].paid_at
    /\ orders[1].order_status = CANCELLED
    /\ orders[2].payment_status = "succeeded" /\ orders[2].paid_at
    /\ orders[2].order_status = DELIVERED

\* C24: delivered_at is set only by the transition to Delivered.  An order
\* in status Delivered has delivered_at set; an order gets delivered_at
\* only in a step that leaves it in status Delivered, a step of
\* update_order_status or mark_as_delivered, so an order that never was
\* Delivered has none; create_order stores the order without delivered_at
\* and no step of create_order or cancel_order sets it.
C24_DeliveredAtOnlyByDelivery ==
    [][/\ \A o \in DOMAIN orders :
             orders[o].order_status = DELIVERED => orders[o].delivered_at
       /\ \A o \in DOMAIN orders' :
             orders'[o].order_status = DELIVERED => orders'[o].delivered_at
       /\ \A o \in DOMAIN orders' \ DOMAIN orders : ~orders'[o].delivered_at
       /\ \A o \in DOMAIN orders :
             (orders'[o].delivered_at /\ ~orders[o].delivered_at)
                 => /\ orders'[o].order_status = DELIVERED
                    /\ \E c \in Clients :
                          /\ Moves(c)
                          /\ req[c].kind \in {"update", "deliver"}
                          /\ req[c].oid = o
       /\ \A o \in DOMAIN orders :
             orders[o].delivered_at => orders'[o].delivered_at]_vars

\* mark_as_delivered has stamped the earlier order, which had no
\* delivered_at, and create_order has stored a second order, which has
\* none.
C24_Witness ==
    \E a, b \in Clients :
        /\ Finished(a, "deliver") /\ req[a].result = "ok"
        /\ ~req[a].seen.delivered_at
        /\ orders[req[a].oid].order_status = DELIVERED
        /\ orders[req[a].oid].delivered_at
        /\ Finished(b, "create") /\ req[b].result = "ok"
        /\ orders[req[b].oid].order_status = PROCESSING
        /\ ~orders[req[b].oid].delivered_at

\* C25: a final status allows no more transitions: whenever is_final(s)
\* holds, can_transition_to(s, t) is false for every status t, and
\* update_order_status on an order it has read in a final status fails its
\* test with ValidationError.
C25_FinalAllowsNoTransition ==
    /\ \A c \in Clients :
          (/\ req[c].kind = "update" /\ req[c].seen # NoOrder
           /\ is_final(req[c].seen.order_status))
              => /\ ~can_transition_to(req[c].seen.order_status,
                                       req[c].status)
                 /\ req[c].result = "ValidationError"
    /\ \A s, t \in OrderStatus : is_final(s) => ~can_transition_to(s, t)

\* C26: each product holds at most one review of each user, whatever the
\* interleaving of add_review requests; and add_review by a user who has a
\* review on the product, run with no concurrent request, puts its rating
\* and comment in that review and leaves the reviews otherwise, their
\* number and num_of_reviews as they were.
C26_OneReviewPerUser ==
    /\ \A p \in DOMAIN reviews, u \in Users :
          Cardinality(ReviewsBy(p, u)) <= 1
    /\ \A c \in Clients :
          LET r == req[c]
              before == r.reviews0[r.product_id]
              now == reviews[r.product_id]
          IN  (/\ RanAlone(c, "add_review") /\ r.result = "ok"
               /\ \E k \in DOMAIN before.reviews :
                     before.reviews[k].user = r.user)
                  => /\ Len(now.reviews) = Len(before.reviews)
                     /\ now.num_of_reviews = before.num_of_reviews
                     /\ \A k \in DOMAIN before.reviews :
                           now.reviews[k]
                               = IF before.reviews[k].user = r.user
                                 THEN [user |-> r.user, rating |-> r.rating,
                                       comment |-> r.comment]
                                 ELSE before.reviews[k]

\* The quantity of product p that the request of client c has given back
\* to the stock so far on behalf of order o: the items its restore loop has
\* gone through.
Restored(c, o, p) ==
    LET r == req[c]
    IN  IF r.kind # "cancel" \/ r.oid # o THEN 0
        ELSE IF r.pc = "restore"
             THEN QtyOf(SubSeq(r.seen.order_items, 1, r.i - 1), p)
             ELSE IF r.pc \in {"write", "reload"}
                     \/ (r.pc = "done" /\ r.result = "ok")
                  THEN QtyOf(r.seen.order_items, p)
                  ELSE 0

RECURSIVE RestoredByAll(_, _, _)
RestoredByAll(S, o, p) ==
    IF S = {} THEN 0
    ELSE LET c == CHOOSE x \in S : TRUE
         IN  Restored(c, o, p) + RestoredByAll(S \ {c}, o, p)

\* C27: over all cancel_order requests made on an order, concurrent ones
\* by its owner included, the stock given back on behalf of the order
\* never exceeds, for any product, the quantity the order holds of it.
C27_RestoredAtMostOnce ==
    \A o \in DOMAIN orders, p \in Products :
        RestoredByAll(Clients, o, p) <= QtyOf(orders[o].order_items, p)

\* The statuses that can_transition_to allows after status s.
Allowed(s) == {t \in OrderStatus : can_transition_to(s, t)}

RECURSIVE ReachedWithin(_, _)
\* The statuses of S and those reached from them by at most n transitions.
ReachedWithin(S, n) ==
    IF n = 0 THEN S
    ELSE ReachedWithin(S \cup UNION {Allowed(s) : s \in S}, n - 1)

\* The statuses reached from s by one transition or more.
ReachedFrom(s) == ReachedWithin(Allowed(s), Cardinality(OrderStatus))

RECURSIVE LongestChain(_, _)
\* The number of transitions of the longest chain from s, counted up to n.
LongestChain(s, n) ==
    IF n = 0 \/ Allowed(s) = {} THEN 0
    ELSE LET lengths == {LongestChain(t, n - 1) : t \in Allowed(s)}
         IN  1 + CHOOSE m \in lengths : \A k \in lengths : k <= m

\* The longest chain from s; a relation with a cycle has chains of every
\* length, counted here up to the number of statuses.
Rank == [s \in OrderStatus |-> LongestChain(s, Cardinality(OrderStatus))]

\* No status is reached from itself; the longest chain from Processing has
\* 5 transitions; Cancelled and Refunded alone have no transition out and
\* every other status reaches one of them.
ChainsEnd ==
    /\ \A s \in OrderStatus : s \notin ReachedFrom(s)
    /\ Rank[PROCESSING] = 5
    /\ {s \in OrderStatus : Allowed(s) = {}} = {CANCELLED, REFUNDED}
    /\ \A s \in OrderStatus \ {CANCELLED, REFUNDED} :
          ReachedFrom(s) \cap {CANCELLED, REFUNDED} # {}

\* C28: the transition relation of can_transition_to has no cycle, so a
\* chain from Processing visits no status twice; the longest chain from
\* Processing has 5 transitions; Cancelled and Refunded are the only
\* statuses with no transition out and every other status reaches one of
\* them; and every status change of an order, requests served in turn,
\* moves it to a status with a strictly shorter longest chain, so the
\* successful status changes of one order come to an end.
C28_TransitionsTerminate ==
    [][/\ ChainsEnd
       /\ \A o \in DOMAIN orders :
             orders'[o].order_status # orders[o].order_status
                 => Rank[orders'[o].order_status]
                       < Rank[orders[o].order_status]]_vars

\* update_order_status has taken an order from Delivered, which it had
\* reached from Processing, to Refunded, the end of the longest chain.
C28_Witness ==
    \E c \in Clients :
        /\ RanAlone(c, "update") /\ req[c].result = "ok"
        /\ req[c].seen.order_status = DELIVERED
        /\ req[c].seen.delivered_at
        /\ req[c].status = REFUNDED
        /\ orders[req[c].oid].order_status = REFUNDED
        /\ Rank[REFUNDED] = 0

\* C29: a stock change committed by create_order or cancel_order is never
\* lost to an admin product edit: the write of an update_product that was
\* called without a stock value leaves the stock of every product as it is
\* at that moment, whatever was committed since update_product read the
\* product.
C29_StockChangeNotLost ==
    [][\A c \in Clients :
          (/\ req[c].kind = "update_product" /\ req[c].pc = "write"
           /\ Moves(c)
           /\ req[c].given_stock = NoStock)
              => stock' = stock]_vars

\* C30: num_of_reviews of every product equals the number of reviews
\* stored for it and is never negative; remove_review by a user who has no
\* review on the product, run with no concurrent request, returns False
\* and leaves reviews and num_of_reviews unchanged.
C30_ReviewCountMatches ==
    /\ \A p \in DOMAIN reviews :
          /\ reviews[p].num_of_reviews = Len(reviews[p].reviews)
          /\ reviews[p].num_of_reviews >= 0
    /\ \A c \in Clients :
          LET r == req[c]
          IN  (/\ RanAlone(c, "remove_review")
               /\ r.product_id \in DOMAIN r.reviews0
               /\ \A k \in DOMAIN r.reviews0[r.product_id].reviews :
                     r.reviews0[r.product_id].reviews[k].user # r.user)
                  => /\ r.result = "False"
                     /\ reviews[r.product_id].reviews
                           = r.reviews0[r.product_id].reviews
                     /\ reviews[r.product_id].num_of_reviews
                           = r.reviews0[r.product_id].num_of_reviews

====
